---- MODULE Spec2Model ----
(***************************************************************************)
(* Model of borehole-velta: src/src/borehole_processor.py                  *)
(* (BoreholeProcessor: identifier extraction, label/marker matching,       *)
(* reference selection, relative heights) and src/src/main.py (main,       *)
(* process_dwg_file) with the results of src/src/autocad_handler.py and    *)
(* the connector loop of src/src/autocad_connector.py.                     *)
(*                                                                         *)
(* Four specifications over the same variables.                            *)
(*  - Spec: the public methods of one BoreholeProcessor, called in any     *)
(*    order with any arguments.                                            *)
(*  - FnSpec: the helper methods and the two extractions, each called      *)
(*    once on a processor as constructed, the arguments kept in call.      *)
(*  - ProgramSpec: one run of main and process_dwg_file, step by step;     *)
(*    what AutoCAD answers is chosen at the step that asks for it.         *)
(*  - FaultSpec: the runs of ProgramSpec and the runs in which a call of   *)
(*    the try block of process_dwg_file raises, with weak fairness: a run  *)
(*    goes on to its end.                                                  *)
(*                                                                         *)
(* Representation.                                                         *)
(*  - A Python str is a sequence of one-character strings.  The module     *)
(*    language has ASCII strings only, so the Cyrillic letters are written *)
(*    by Latin stand-ins: "s" "k" "v" "a" "zh" "i" "n" are the lower-case  *)
(*    Cyrillic es, ka, ve, a, zhe, i, en; "S" "K" "V" "A" "ZH" "I" "En"    *)
(*    their capitals; "N" is the numero sign; "x" is a Latin letter;       *)
(*    "nl" is a newline.                                                   *)
(*  - Optional[T] is a set: None is {}, a present value v is {v}.          *)
(*  - float coordinates are integers (the claims need no rounding).        *)
(*  - Borehole objects live in the list `boreholes`; a Borehole that is    *)
(*    referenced only by reference_borehole (its list was replaced) lives  *)
(*    in `detached`.  reference_borehole holds an address: i > 0 is        *)
(*    boreholes[i], 0 is the detached object.                              *)
(*  - hist_selected, hist_heights and hist_repeat are history variables:   *)
(*    no code reads them; they record what has happened to the current     *)
(*    list.                                                                *)
(*  - In Spec, FnSpec and ProgramSpec console output and logging always    *)
(*    succeed; of the console calls trace records the warning, the error   *)
(*    and the final table.  In FaultSpec trace records "except" when the   *)
(*    except clause of process_dwg_file has caught an exception.           *)
(***************************************************************************)
EXTENDS Integers, Sequences, FiniteSets, TLC

VARIABLES
    boreholes,           \* self.boreholes: the list of Borehole objects
    reference_borehole,  \* self.reference_borehole: Optional address
    detached,            \* Optional Borehole kept alive by reference_borehole only
    call,                \* the last method call: name, argument, return value
    hist_selected,       \* history: list positions selected since the list was built
    hist_heights,        \* history: a height pass succeeded since the list was built
    hist_repeat,         \* history: the last call repeated the successful height pass before it
    pc,                  \* position of the run of main() / process_dwg_file
    args,                \* command line: reference_borehole, reference_z
    handler,             \* AutoCADHandler: connection_manager, acad and doc (an
                         \* application, a document is held), is_connected
    fetched,             \* locals borehole_blocks, text_entities, circles (None: not fetched)
    trace,               \* the calls process_dwg_file has made, in order
    status               \* success of process_dwg_file, exit status of the program

\* the BoreholeProcessor and its history
processor == <<boreholes, reference_borehole, detached, call, hist_selected, hist_heights,
               hist_repeat>>

\* the run of the program around it
program == <<pc, args, handler, fetched, trace, status>>

vars == <<processor, program>>

\* ------------------------------------------------------------------ bounds
MaxBlocks == 2
MaxTexts == 1
MaxCircles == 2

\* --------------------------------------------------------------- Optional
None == {}
Some(v) == {v}
Get(o) == CHOOSE v \in o : TRUE

\* ------------------------------------------------------------- characters
Digits == <<"0", "1", "2", "3", "4", "5", "6", "7", "8", "9">>

IsDigit(c) == \E d \in 1..10 : Digits[d] = c

\* \s of the re module
IsSpace(c) == c \in {" ", "nl"}

\* the class [a-ya] of the patterns (lower-case Cyrillic letters)
IsCyrLower(c) == c \in {"s", "k", "v", "a", "zh", "i", "n"}

\* mutant: the text is matched as written, without lower-casing
LowerCharIdentity(c) == c

\* str.lower() on one character
LowerChar(c) ==
    CASE c = "S" -> "s"
      [] c = "K" -> "k"
      [] c = "V" -> "v"
      [] c = "A" -> "a"
      [] c = "ZH" -> "zh"
      [] c = "I" -> "i"
      [] c = "En" -> "n"
      [] c = "X" -> "x"
      [] OTHER -> c

Lower(s) == [i \in 1..Len(s) |-> LowerChar(s[i])]

\* str.strip(): drop leading and trailing whitespace
RECURSIVE LStrip(_)
LStrip(s) == IF s # <<>> /\ IsSpace(Head(s)) THEN LStrip(Tail(s)) ELSE s

RECURSIVE RStrip(_)
RStrip(s) ==
    IF s # <<>> /\ IsSpace(s[Len(s)]) THEN RStrip(SubSeq(s, 1, Len(s) - 1)) ELSE s

Strip(s) == RStrip(LStrip(s))

\* str(n) for n >= 0
RECURSIVE IntToStr(_)
IntToStr(n) ==
    IF n < 10 THEN <<Digits[n + 1]>>
    ELSE Append(IntToStr(n \div 10), Digits[(n % 10) + 1])

\* the value of one digit character
DigitValue(c) == CHOOSE d \in 0..9 : Digits[d + 1] = c

\* the number a digit string denotes (str(n) read back), any leading zeros
\* allowed
RECURSIVE StrToInt(_)
StrToInt(s) ==
    IF s = <<>> THEN 0
    ELSE 10 * StrToInt(SubSeq(s, 1, Len(s) - 1)) + DigitValue(s[Len(s)])

\* ------------------------------------------------ the five pattern rules
\* index just after the longest run of characters of a class starting at i
SpaceRunEnd(s, i) ==
    CHOOSE j \in i..(Len(s) + 1) :
        /\ \A k \in i..(j - 1) : IsSpace(s[k])
        /\ (j = Len(s) + 1 \/ ~IsSpace(s[j]))

DigitRunEnd(s, i) ==
    CHOOSE j \in i..(Len(s) + 1) :
        /\ \A k \in i..(j - 1) : IsDigit(s[k])
        /\ (j = Len(s) + 1 \/ ~IsDigit(s[j]))

CyrRunEnd(s, i) ==
    CHOOSE j \in i..(Len(s) + 1) :
        /\ \A k \in i..(j - 1) : IsCyrLower(s[k])
        /\ (j = Len(s) + 1 \/ ~IsCyrLower(s[j]))

\* the literal "skv" at index i
SkvAt(s, i) ==
    /\ i >= 1
    /\ i + 2 <= Len(s)
    /\ s[i] = "s" /\ s[i + 1] = "k" /\ s[i + 2] = "v"

\* (\d+) at index i: the capture, or None
DigitsAt(s, i) ==
    IF i >= 1 /\ i <= Len(s) /\ IsDigit(s[i])
    THEN Some(SubSeq(s, i, DigitRunEnd(s, i) - 1))
    ELSE None

\* rule 1: skv[a-ya]*\.?\s*(\d+)
Rule1At(s, i) ==
    IF ~SkvAt(s, i) THEN None
    ELSE LET j1 == CyrRunEnd(s, i + 3)
             j2 == IF j1 <= Len(s) /\ s[j1] = "." THEN j1 + 1 ELSE j1
             j3 == SpaceRunEnd(s, j2)
         IN  DigitsAt(s, j3)

\* rule 2: N\s*(\d+)
Rule2At(s, i) ==
    IF s[i] # "N" THEN None
    ELSE DigitsAt(s, SpaceRunEnd(s, i + 1))

\* rule 3: (\d+)\s*skv
Rule3At(s, i) ==
    IF ~IsDigit(s[i]) THEN None
    ELSE LET j1 == DigitRunEnd(s, i)
             j2 == SpaceRunEnd(s, j1)
         IN  IF SkvAt(s, j2) THEN Some(SubSeq(s, i, j1 - 1)) ELSE None

\* rule 4: skv\s*(\d+)
Rule4At(s, i) ==
    IF ~SkvAt(s, i) THEN None
    ELSE DigitsAt(s, SpaceRunEnd(s, i + 3))

\* rule 5: ^(\d+)$   ($ also matches just before one trailing newline)
Rule5(s) ==
    LET body == IF s # <<>> /\ s[Len(s)] = "nl"
                THEN SubSeq(s, 1, Len(s) - 1) ELSE s
    IN  IF body # <<>> /\ \A k \in 1..Len(body) : IsDigit(body[k])
        THEN Some(body) ELSE None

\* rules 1-4 tried at start index i
RuleAt(r, s, i) ==
    CASE r = 1 -> Rule1At(s, i)
      [] r = 2 -> Rule2At(s, i)
      [] r = 3 -> Rule3At(s, i)
      [] r = 4 -> Rule4At(s, i)

\* re.search for rules 1-4: the match at the leftmost start at which the
\* rule matches
FirstMatch(r, s) ==
    IF \E i \in 1..Len(s) : RuleAt(r, s, i) # None
    THEN RuleAt(r, s, CHOOSE i \in 1..Len(s) :
                         /\ RuleAt(r, s, i) # None
                         /\ \A k \in 1..(i - 1) : RuleAt(r, s, k) = None)
    ELSE None

\* the ordered rule list: result of re.search(borehole_patterns[r-1], s)
borehole_patterns(r, s) == IF r = 5 THEN Rule5(s) ELSE FirstMatch(r, s)

NumPatterns == 5

\* mutant: the last rule of the list that matches decides
ExtractBoreholeNumberLastRule(text) ==
    LET text_lower == Lower(text)
    IN  IF \E r \in 1..NumPatterns : borehole_patterns(r, text_lower) # None
        THEN borehole_patterns(
                 CHOOSE r \in 1..NumPatterns :
                     /\ borehole_patterns(r, text_lower) # None
                     /\ \A q \in (r + 1)..NumPatterns :
                            borehole_patterns(q, text_lower) = None,
                 text_lower)
        ELSE None

\* _extract_borehole_number: first rule, in list order, that matches
ExtractBoreholeNumber(text) ==
    LET text_lower == Lower(text)
    IN  IF \E r \in 1..NumPatterns : borehole_patterns(r, text_lower) # None
        THEN borehole_patterns(
                 CHOOSE r \in 1..NumPatterns :
                     /\ borehole_patterns(r, text_lower) # None
                     /\ \A q \in 1..(r - 1) : borehole_patterns(q, text_lower) = None,
                 text_lower)
        ELSE None

\* ------------------------------------------------------- Borehole objects
\* dataclass Borehole; z defaults to None, relative_height to None
Borehole(number, x, y, z, text_entity, circle_entity) ==
    [number |-> number, x |-> x, y |-> y, z |-> z,
     relative_height |-> None,
     text_entity |-> text_entity, circle_entity |-> circle_entity]

\* mutant: the height of the position is dropped
PosZFlat(position) == 0

\* position[2] if len(position) > 2 else 0.0
PosZ(position) == IF Len(position) > 2 THEN position[3] ELSE 0

\* ---------------------------------------- extract_borehole_from_blocks
\* mutant: the loop does not stop at the first match, the last one stays
RECURSIVE AttributeNumberLast(_)
AttributeNumberLast(values) ==
    IF values = <<>> THEN None
    ELSE LET later == AttributeNumberLast(Tail(values))
         IN  IF later # None THEN later
             ELSE IF Head(values) # <<>> /\ ExtractBoreholeNumber(Head(values)) # None
                  THEN ExtractBoreholeNumber(Head(values))
                  ELSE None

\* the inner loop over attributes.items(): the first value that is truthy
\* and yields a number
RECURSIVE AttributeNumber(_)
AttributeNumber(values) ==
    IF values = <<>> THEN None
    ELSE IF Head(values) # <<>> /\ ExtractBoreholeNumber(Head(values)) # None
         THEN ExtractBoreholeNumber(Head(values))
         ELSE AttributeNumber(Tail(values))

\* one iteration of the loop over enumerate(borehole_blocks); idx is 0-based
BlockBorehole(idx, block) ==
    LET position == block.position
        found == AttributeNumber(block.attributes)
        borehole_number == IF found = None THEN IntToStr(idx + 1) ELSE Get(found)
    IN  Borehole(borehole_number, position[1], position[2],
                 Some(PosZ(position)), None, None)

BlocksResult(borehole_blocks) ==
    [i \in 1..Len(borehole_blocks) |-> BlockBorehole(i - 1, borehole_blocks[i])]

\* --------------------------------------------------- nearest neighbour
\* squared XY distance; the code compares square roots, which order the
\* same way
Dist2(p, q) == (p[1] - q[1]) * (p[1] - q[1]) + (p[2] - q[2]) * (p[2] - q[2])

MaxDistance == 50

\* mutant: on equal distances the later candidate replaces the earlier one
RECURSIVE ScanNearestLastWins(_, _, _, _, _)
ScanNearestLastWins(pos, cands, where, best, min2) ==
    IF cands = <<>> THEN best
    ELSE LET c == Head(cands)
             d2 == Dist2(pos, c[where])
         IN  IF (min2 = None \/ d2 <= Get(min2)) /\ d2 <= MaxDistance * MaxDistance
             THEN ScanNearestLastWins(pos, Tail(cands), where, Some(c), Some(d2))
             ELSE ScanNearestLastWins(pos, Tail(cands), where, best, min2)

\* the scan shared by _find_closest_circle and _find_nearby_text:
\* best is the Optional candidate so far, min2 the Optional squared minimum
\* (None is float('inf'))
RECURSIVE ScanNearest(_, _, _, _, _)
ScanNearest(pos, cands, where, best, min2) ==
    IF cands = <<>> THEN best
    ELSE LET c == Head(cands)
             d2 == Dist2(pos, c[where])
         IN  IF (min2 = None \/ d2 < Get(min2)) /\ d2 <= MaxDistance * MaxDistance
             THEN ScanNearest(pos, Tail(cands), where, Some(c), Some(d2))
             ELSE ScanNearest(pos, Tail(cands), where, best, min2)

FindClosestCircle(text_position, circles) ==
    IF circles = <<>> THEN None
    ELSE ScanNearest(text_position, circles, "center", None, None)

FindNearbyText(circle_center, text_entities) ==
    ScanNearest(circle_center, text_entities, "position", None, None)

\* ------------------------------------------- extract_borehole_numbers
\* mutant: the borehole stays at the label although a circle was found
TextBoreholeAtLabel(text_entity, circles) ==
    LET text == Strip(text_entity.text)
        position == text_entity.position
        borehole_number == ExtractBoreholeNumber(text)
    IN  IF borehole_number = None THEN <<>>
        ELSE <<Borehole(Get(borehole_number), position[1], position[2],
                        Some(PosZ(position)), Some(text_entity),
                        FindClosestCircle(position, circles))>>

\* mutant: a label with no circle within reach is dropped
TextBoreholeNeedsCircle(text_entity, circles) ==
    LET text == Strip(text_entity.text)
        position == text_entity.position
        borehole_number == ExtractBoreholeNumber(text)
        closest_circle == FindClosestCircle(position, circles)
    IN  IF borehole_number = None \/ closest_circle = None THEN <<>>
        ELSE LET center == Get(closest_circle).center
             IN  <<Borehole(Get(borehole_number), center[1], center[2],
                            Some(IF Len(center) > 2 THEN center[3]
                                 ELSE PosZ(position)),
                            Some(text_entity), closest_circle)>>

\* body of the first loop for one text entity: << >> or one borehole
TextBorehole(text_entity, circles) ==
    LET text == Strip(text_entity.text)
        position == text_entity.position
        borehole_number == ExtractBoreholeNumber(text)
        closest_circle == FindClosestCircle(position, circles)
    IN  IF borehole_number = None THEN <<>>
        ELSE IF closest_circle = None
             THEN <<Borehole(Get(borehole_number), position[1], position[2],
                             Some(PosZ(position)), Some(text_entity), None)>>
             ELSE LET center == Get(closest_circle).center
                  IN  <<Borehole(Get(borehole_number), center[1], center[2],
                                 Some(IF Len(center) > 2 THEN center[3]
                                      ELSE PosZ(position)),
                                 Some(text_entity), closest_circle)>>

RECURSIVE TextLoop(_, _, _)
TextLoop(rest, circles, acc) ==
    IF rest = <<>> THEN acc
    ELSE TextLoop(Tail(rest), circles, acc \o TextBorehole(Head(rest), circles))

\* body of the second loop for one circle, given the list built so far
CircleBorehole(circle, text_entities, acc) ==
    IF \E i \in 1..Len(acc) : acc[i].circle_entity = Some(circle) THEN <<>>
    ELSE LET nearby_text == FindNearbyText(circle.center, text_entities)
         IN  IF nearby_text = None THEN <<>>
             ELSE LET borehole_number == ExtractBoreholeNumber(Get(nearby_text).text)
                  IN  IF borehole_number = None THEN <<>>
                      ELSE <<Borehole(Get(borehole_number),
                                      circle.center[1], circle.center[2],
                                      Some(PosZ(circle.center)),
                                      nearby_text, Some(circle))>>

RECURSIVE CircleLoop(_, _, _)
CircleLoop(rest, text_entities, acc) ==
    IF rest = <<>> THEN acc
    ELSE CircleLoop(Tail(rest), text_entities,
                    acc \o CircleBorehole(Head(rest), text_entities, acc))

NumbersResult(text_entities, circles) ==
    CircleLoop(circles, text_entities, TextLoop(text_entities, circles, <<>>))

\* ------------------------------------------------------------ the heap
\* the object at an address
Obj(addr) == IF addr = 0 THEN Get(detached) ELSE boreholes[addr]

\* the Borehole that reference_borehole points to (only when it is set)
RefObj == Obj(Get(reference_borehole))

\* dataclass equality (eq=True): field by field, not identity
BoreholeEq(a, b) == a = b

\* ----------------------------------------------------- get_boreholes_data
IsReference(b) == reference_borehole # None /\ BoreholeEq(b, RefObj)

get_boreholes_data ==
    [i \in 1..Len(boreholes) |->
        [number |-> boreholes[i].number,
         x |-> boreholes[i].x,
         y |-> boreholes[i].y,
         z |-> boreholes[i].z,
         relative_height |-> boreholes[i].relative_height,
         is_reference |-> IsReference(boreholes[i])]]

\* ------------------------------------------------------- input domains
Str1 == <<"1">>
Str3 == <<"3">>
StrSkv2 == <<"s", "k", "v", ".", " ", "2">>
StrSkv5 == <<"S", "k", "v", ".", " ", "5">>
StrPad7 == <<" ", "7", " ">>
StrX == <<"x">>
StrEmpty == <<>>

BlockSamples ==
    { [position |-> <<0, 0, 0>>, attributes |-> <<Str1>>],
      [position |-> <<10, 0, 5>>, attributes |-> <<StrEmpty, StrX, StrSkv2>>],
      [position |-> <<20, 0, -3>>, attributes |-> <<Str3>>],
      [position |-> <<0, 0>>, attributes |-> <<>>] }

TextSamples ==
    { [text |-> StrSkv5, position |-> <<3, 4, 0>>],
      [text |-> StrPad7, position |-> <<100, 0, 2>>],
      [text |-> StrX, position |-> <<3, 5>>] }

CircleSamples ==
    { [center |-> <<4, 4, 0>>, radius |-> 1],
      [center |-> <<3, 10, 6>>, radius |-> 1] }

SeqsUpTo(S, n) == UNION { [1..k -> S] : k \in 0..n }

\* arguments of set_reference_borehole: omitted (None), "", or a string
ReferenceArgs == { None, Some(StrEmpty), Some(Str1), Some(<<"2">>), Some(<<"5">>), Some(<<"9">>) }

\* arguments of calculate_relative_heights
ReferenceZs == { 0, 100 }

\* ----------------------------------------------------------------- Init
\* BoreholeProcessor.__init__
Init ==
    /\ boreholes = <<>>
    /\ reference_borehole = None
    /\ detached = None
    /\ call = [op |-> "init", arg |-> None, ret |-> TRUE]
    /\ hist_selected = {}
    /\ hist_heights = FALSE
    /\ hist_repeat = FALSE
    /\ pc = "main"
    /\ args = [reference_borehole |-> None, reference_z |-> 0]
    /\ handler = [connection_manager |-> [active_connector |-> None,
                                          is_connected |-> FALSE],
                  acad |-> FALSE, doc |-> FALSE, is_connected |-> FALSE]
    /\ fetched = [borehole_blocks |-> None, text_entities |-> None, circles |-> None]
    /\ trace = <<>>
    /\ status = [success |-> None, exit |-> None]

\* self.boreholes = [] ... : the list is replaced by new objects; the object
\* reference_borehole points to, if any, stays alive outside the list
Detach ==
    IF reference_borehole = None
    THEN UNCHANGED <<reference_borehole, detached>>
    ELSE /\ detached' = Some(RefObj)
         /\ reference_borehole' = Some(0)

\* the inputs the model draws, each with the list the method builds from it
BlockInputs == SeqsUpTo(BlockSamples, MaxBlocks)

BlocksTable == { <<borehole_blocks, BlocksResult(borehole_blocks)>> : borehole_blocks \in BlockInputs }

NumberInputs == SeqsUpTo(TextSamples, MaxTexts) \X SeqsUpTo(CircleSamples, MaxCircles)

NumbersTable == { <<in[1], in[2], NumbersResult(in[1], in[2])>> : in \in NumberInputs }

\* result is BlocksResult(borehole_blocks), taken from BlocksTable
extract_borehole_from_blocks(borehole_blocks, result) ==
    /\ boreholes' = result
    /\ Detach
    /\ call' = [op |-> "extract_borehole_from_blocks", arg |-> None, ret |-> TRUE]
    /\ hist_selected' = {}
    /\ hist_heights' = FALSE
    /\ hist_repeat' = FALSE

\* result is NumbersResult(text_entities, circles), taken from NumbersTable
extract_borehole_numbers(text_entities, circles, result) ==
    /\ boreholes' = result
    /\ Detach
    /\ call' = [op |-> "extract_borehole_numbers", arg |-> None, ret |-> TRUE]
    /\ hist_selected' = {}
    /\ hist_heights' = FALSE
    /\ hist_repeat' = FALSE

\* ------------------------------------------------ set_reference_borehole
\* the loop of lines 243-248: index of the first borehole with this number,
\* 0 when the loop falls through
FindByNumber(bs, n) ==
    IF \E i \in 1..Len(bs) : bs[i].number = n
    THEN CHOOSE i \in 1..Len(bs) :
             /\ bs[i].number = n
             /\ \A k \in 1..(i - 1) : bs[k].number # n
    ELSE 0

\* random.choice(self.boreholes): any element
RandomChoice(bs) == 1..Len(bs)

\* Python truthiness of the argument: None and "" are falsy
Truthy(borehole_number) == borehole_number # None /\ Get(borehole_number) # <<>>

\* mutant: the selection leaves relative_height unset
SelectedHeightUnset == None

\* relative_height given to the borehole that becomes the reference
SelectedHeight == Some(0)

\* self.reference_borehole = borehole; borehole.relative_height = 0.0
Select(i) ==
    /\ reference_borehole' = Some(i)
    /\ boreholes' = [boreholes EXCEPT ![i].relative_height = SelectedHeight]
    /\ detached' = None
    /\ hist_selected' = hist_selected \cup {i}
    /\ UNCHANGED hist_heights

set_reference_borehole(borehole_number) ==
    /\ hist_repeat' = FALSE
    /\ IF boreholes = <<>>
       THEN /\ call' = [op |-> "set_reference_borehole",
                        arg |-> borehole_number, ret |-> FALSE]
            /\ UNCHANGED <<boreholes, reference_borehole, detached,
                           hist_selected, hist_heights>>
       ELSE IF Truthy(borehole_number)
            THEN LET i == FindByNumber(boreholes, Get(borehole_number))
                 IN  IF i # 0
                     THEN /\ Select(i)
                          /\ call' = [op |-> "set_reference_borehole",
                                      arg |-> borehole_number, ret |-> TRUE]
                     ELSE /\ call' = [op |-> "set_reference_borehole",
                                      arg |-> borehole_number, ret |-> FALSE]
                          /\ UNCHANGED <<boreholes, reference_borehole, detached,
                                         hist_selected, hist_heights>>
            ELSE \E i \in RandomChoice(boreholes) :
                     /\ Select(i)
                     /\ call' = [op |-> "set_reference_borehole",
                                 arg |-> borehole_number, ret |-> TRUE]

\* -------------------------------------------- calculate_relative_heights
\* guard of line 268: no reference, nothing to compute
NoReference == reference_borehole = None

\* mutant: the refused pass reports success
NoReferenceReturnsTrue == TRUE

\* line 270: the value returned when the guard holds
NoReferenceReturn == FALSE

\* mutant: the override always replaces the reference's z
RefZAlwaysOverride(ref, reference_z) == Some(reference_z)

\* lines 274-275: the reference's z after the override rule
RefZ(ref, reference_z) ==
    IF ref.z = None \/ Get(ref.z) = 0 THEN Some(reference_z) ELSE ref.z

\* mutant: the pass adds the difference to the height already stored
RelativeHeightAccumulated(b, z, ref) ==
    Some((IF b.relative_height = None THEN 0 ELSE Get(b.relative_height))
         + (Get(z) - Get(ref.z)))

\* line 288: borehole.relative_height = borehole.z - self.reference_borehole.z
RelativeHeight(b, z, ref) == Some(Get(z) - Get(ref.z))

\* mutant: the difference is taken the wrong way round
HeightOfReversed(b, ref) ==
    IF BoreholeEq(b, ref) THEN b
    ELSE LET z == IF b.z = None THEN Some(0) ELSE b.z
         IN  [b EXCEPT !.z = z,
                       !.relative_height = Some(Get(ref.z) - Get(z))]

\* one iteration of the loop of lines 279-290 for borehole b
HeightOf(b, ref) ==
    IF BoreholeEq(b, ref) THEN b
    ELSE LET z == IF b.z = None THEN Some(0) ELSE b.z
         IN  [b EXCEPT !.z = z,
                       !.relative_height = RelativeHeight(b, z, ref)]

\* the call before this one was this same pass, with the same override, on
\* the same reference (a selection or an extraction in between resets call)
SameCallAgain(reference_z) ==
    /\ call.op = "calculate_relative_heights"
    /\ call.arg = reference_z
    /\ call.ret

calculate_relative_heights(reference_z) ==
    /\ hist_repeat' = SameCallAgain(reference_z)
    /\ IF NoReference
       THEN /\ call' = [op |-> "calculate_relative_heights",
                        arg |-> reference_z, ret |-> NoReferenceReturn]
            /\ UNCHANGED <<boreholes, reference_borehole, detached,
                           hist_selected, hist_heights>>
       ELSE LET addr == Get(reference_borehole)
                ref == [RefObj EXCEPT !.z = RefZ(RefObj, reference_z)]
                heap1 == IF addr = 0 THEN boreholes
                         ELSE [boreholes EXCEPT ![addr] = ref]
            IN  /\ boreholes' = [i \in 1..Len(boreholes) |-> HeightOf(heap1[i], ref)]
                /\ detached' = IF addr = 0 THEN Some(ref) ELSE detached
                /\ UNCHANGED <<reference_borehole, hist_selected>>
                /\ hist_heights' = TRUE
                /\ call' = [op |-> "calculate_relative_heights",
                            arg |-> reference_z, ret |-> TRUE]

\* ----------------------------------------------------------------- Next
ExtractFromBlocks ==
    /\ \E io \in BlocksTable : extract_borehole_from_blocks(io[1], io[2])
    /\ UNCHANGED program

ExtractNumbers ==
    /\ \E io \in NumbersTable : extract_borehole_numbers(io[1], io[2], io[3])
    /\ UNCHANGED program

SetReference ==
    /\ \E borehole_number \in ReferenceArgs : set_reference_borehole(borehole_number)
    /\ UNCHANGED program

CalculateHeights ==
    /\ \E reference_z \in ReferenceZs : calculate_relative_heights(reference_z)
    /\ UNCHANGED program

Next ==
    \/ ExtractFromBlocks
    \/ ExtractNumbers
    \/ SetReference
    \/ CalculateHeights

Spec == Init /\ [][Next]_vars

\* ====================================== the helper functions on their own
\* the label formats the pattern list is written for (comments of lines
\* 35-39): "skv. D", "skvazhina D", "N D", "D skv", "skv D", "D"; sep is the
\* whitespace between the marker and the number
LabelFormat(f, d, sep) ==
    CASE f = 1 -> <<"s", "k", "v", ".">> \o sep \o d
      [] f = 2 -> <<"s", "k", "v", "a", "zh", "i", "n", "a">> \o sep \o d
      [] f = 3 -> <<"N">> \o sep \o d
      [] f = 4 -> d \o sep \o <<"s", "k", "v">>
      [] f = 5 -> <<"s", "k", "v">> \o sep \o d
      [] f = 6 -> d

NumFormats == 6

\* the upper-case form of one character, as the drawing may carry it
UpperChar(c) ==
    CASE c = "s" -> "S"
      [] c = "k" -> "K"
      [] c = "v" -> "V"
      [] c = "a" -> "A"
      [] c = "zh" -> "ZH"
      [] c = "i" -> "I"
      [] c = "n" -> "En"
      [] OTHER -> c

\* s with the characters at the positions of mask in upper case
Cased(s, mask) == [i \in 1..Len(s) |-> IF i \in mask THEN UpperChar(s[i]) ELSE s[i]]

LetterPositions(s) == { i \in 1..Len(s) : IsCyrLower(s[i]) }

LabelNumbers == { <<"5">>, <<"1", "2">>, <<"0", "0", "7">> }

LabelSeps == { <<>>, <<" ">> }

\* every supported label, in every letter case, with the number it carries
SupportedLabels ==
    UNION { { <<Cased(LabelFormat(f, d, sep), mask), d>> :
                mask \in SUBSET LetterPositions(LabelFormat(f, d, sep)) } :
            <<f, d, sep>> \in (1..NumFormats) \X LabelNumbers \X LabelSeps }

\* texts none of the five rules matches
UnsupportedLabels ==
    { <<>>, <<" ">>, <<"x">>, <<"s", "k", "v">>, <<"S", "K", "V", ".">>, <<"N">>,
      <<"N", " ", "x">>, <<"x", "5">>, <<"5", "x">>, <<"5", " ", "x">>,
      <<"s", "k", "5">>, <<"5", ".", "5">>, <<"s", "k", "v", " ", "x", "5">> }

\* texts that several rules match with different captures, with the number
\* the rule of highest priority captures: "N 7 skv. 5", "12 skv 7",
\* "N 3 12 skv", "12skv N 4", "N 7 SKV. 5", "7 N 3"
PriorityLabels ==
    { << <<"N", " ", "7", " ", "s", "k", "v", ".", " ", "5">>, <<"5">> >>,
      << <<"1", "2", " ", "s", "k", "v", " ", "7">>, <<"7">> >>,
      << <<"N", " ", "3", " ", "1", "2", " ", "s", "k", "v">>, <<"3">> >>,
      << <<"1", "2", "s", "k", "v", " ", "N", " ", "4">>, <<"4">> >>,
      << <<"N", " ", "7", " ", "S", "K", "V", ".", " ", "5">>, <<"5">> >>,
      << <<"7", " ", "N", " ", "3">>, <<"3">> >> }

LabelInputs ==
    { p[1] : p \in SupportedLabels } \cup UnsupportedLabels
        \cup { p[1] : p \in PriorityLabels }

LabelsTable == { <<text, ExtractBoreholeNumber(text)>> : text \in LabelInputs }

\* the helpers are called once each on a processor as constructed
Fresh == call.op = "init"

\* a call of _extract_borehole_number(text); result is taken from LabelsTable
_extract_borehole_number(text, result) ==
    /\ Fresh
    /\ call' = [op |-> "_extract_borehole_number", arg |-> text, ret |-> result]
    /\ hist_repeat' = FALSE
    /\ UNCHANGED <<boreholes, reference_borehole, detached, hist_selected, hist_heights>>

ExtractNumber ==
    /\ \E io \in LabelsTable : _extract_borehole_number(io[1], io[2])
    /\ UNCHANGED program

\* candidates around the origin: two at distance 50 exactly (a tie, at
\* different heights), two at distance 5 (a tie), one just beyond 50
MaxCandidates == 3

CandidatePoints ==
    { <<30, 40, 0>>, <<40, 30, 7>>, <<3, 4, 100>>, <<-3, -4>>, <<30, 41, 0>> }

QueryPoints == { <<0, 0>>, <<0, 0, 9>>, <<60, 80, 0>> }

CircleCandidates == { [center |-> c, radius |-> 1] : c \in CandidatePoints }

TextCandidates == { [text |-> Str1, position |-> c] : c \in CandidatePoints }

\* a call of _find_closest_circle(text_position, circles)
_find_closest_circle(text_position, circles) ==
    /\ Fresh
    /\ call' = [op |-> "_find_closest_circle", arg |-> <<text_position, circles>>,
                ret |-> FindClosestCircle(text_position, circles)]
    /\ hist_repeat' = FALSE
    /\ UNCHANGED <<boreholes, reference_borehole, detached, hist_selected, hist_heights>>

\* a call of _find_nearby_text(circle_center, text_entities)
_find_nearby_text(circle_center, text_entities) ==
    /\ Fresh
    /\ call' = [op |-> "_find_nearby_text", arg |-> <<circle_center, text_entities>>,
                ret |-> FindNearbyText(circle_center, text_entities)]
    /\ hist_repeat' = FALSE
    /\ UNCHANGED <<boreholes, reference_borehole, detached, hist_selected, hist_heights>>

ClosestCircle ==
    /\ \E text_position \in QueryPoints :
           \E circles \in SeqsUpTo(CircleCandidates, MaxCandidates) :
               _find_closest_circle(text_position, circles)
    /\ UNCHANGED program

NearbyText ==
    /\ \E circle_center \in QueryPoints :
           \E text_entities \in SeqsUpTo(TextCandidates, MaxCandidates) :
               _find_nearby_text(circle_center, text_entities)
    /\ UNCHANGED program

\* insertions for extract_borehole_from_blocks on its own: numeric attribute
\* values that differ from the list positions, a 2D position, several
\* parseable values in one insertion, and insertions without a parseable value
MaxInsertions == 3

Str12 == <<"1", "2">>

Str7 == <<"7">>

InsertionSamples ==
    { [position |-> <<0, 0, 0>>, attributes |-> <<Str3>>],
      [position |-> <<10, 0, 5>>, attributes |-> <<Str1>>],
      [position |-> <<7, 7>>, attributes |-> <<Str12>>],
      [position |-> <<20, 0, -3>>, attributes |-> <<StrEmpty, StrX, StrSkv2, Str7>>],
      [position |-> <<1, 1, 1>>, attributes |-> <<StrX>>],
      [position |-> <<5, 5, 5>>, attributes |-> <<StrPad7>>],
      [position |-> <<2, 2>>, attributes |-> <<>>] }

\* extract_borehole_from_blocks(borehole_blocks) on a fresh processor, the
\* argument kept in call
FromBlocks ==
    \E borehole_blocks \in SeqsUpTo(InsertionSamples, MaxInsertions) :
        /\ Fresh
        /\ boreholes' = BlocksResult(borehole_blocks)
        /\ Detach
        /\ call' = [op |-> "extract_borehole_from_blocks", arg |-> borehole_blocks,
                    ret |-> TRUE]
        /\ hist_selected' = {}
        /\ hist_heights' = FALSE
        /\ hist_repeat' = FALSE
        /\ UNCHANGED program

\* labels and circles for extract_borehole_numbers on its own: labels near
\* one, two or no circle, a label that needs stripping, a label without a
\* number, circles with and without a height
MaxLabels == 2

MaxMarkers == 2

LabelSamples ==
    { [text |-> StrSkv5, position |-> <<3, 4, 0>>],
      [text |-> StrPad7, position |-> <<100, 0, 2>>],
      [text |-> StrX, position |-> <<3, 5>>],
      [text |-> Str12, position |-> <<200, 200>>] }

MarkerSamples ==
    { [center |-> <<4, 4, 0>>, radius |-> 1],
      [center |-> <<3, 10, 6>>, radius |-> 1],
      [center |-> <<120, 0, 1>>, radius |-> 1],
      [center |-> <<110, 0>>, radius |-> 1] }

\* extract_borehole_numbers(text_entities, circles) on a fresh processor, the
\* arguments kept in call
FromNumbers ==
    \E text_entities \in SeqsUpTo(LabelSamples, MaxLabels) :
        \E circles \in SeqsUpTo(MarkerSamples, MaxMarkers) :
            /\ Fresh
            /\ boreholes' = NumbersResult(text_entities, circles)
            /\ Detach
            /\ call' = [op |-> "extract_borehole_numbers",
                        arg |-> <<text_entities, circles>>, ret |-> TRUE]
            /\ hist_selected' = {}
            /\ hist_heights' = FALSE
            /\ hist_repeat' = FALSE
            /\ UNCHANGED program

\* ------------------------------------- ConsoleOutput.print_boreholes_table
\* width of the sort key: str(x['number']).zfill(10)
ZFillWidth == 10

\* str.zfill(width) on a digit string: zeros on the left up to the width, a
\* longer string unchanged
ZFill(s, width) ==
    IF Len(s) >= width THEN s
    ELSE [i \in 1..(width - Len(s)) |-> "0"] \o s

\* a < b for two strings of digits, as Python compares str: by the first
\* differing character, a proper prefix first
RECURSIVE StrLess(_, _)
StrLess(a, b) ==
    IF b = <<>> THEN FALSE
    ELSE IF a = <<>> THEN TRUE
    ELSE IF Head(a) # Head(b) THEN DigitValue(Head(a)) < DigitValue(Head(b))
    ELSE StrLess(Tail(a), Tail(b))

\* the key of line 76
SortKey(row) == ZFill(row.number, ZFillWidth)

\* sorted(..., key=...) is stable: a row goes before the first row with a
\* greater key
RECURSIVE InsertByKey(_, _)
InsertByKey(row, rows) ==
    IF rows = <<>> THEN <<row>>
    ELSE IF StrLess(SortKey(row), SortKey(Head(rows))) THEN <<row>> \o rows
    ELSE <<Head(rows)>> \o InsertByKey(row, Tail(rows))

RECURSIVE SortedBoreholes(_)
SortedBoreholes(boreholes_data) ==
    IF boreholes_data = <<>> THEN <<>>
    ELSE InsertByKey(boreholes_data[Len(boreholes_data)],
                     SortedBoreholes(SubSeq(boreholes_data, 1, Len(boreholes_data) - 1)))

\* rows of get_boreholes_data with short identifiers, identifiers with leading
\* zeros, and an identifier longer than the key width
MaxRows == 2

TableNumbers ==
    { <<"1">>, <<"2">>, <<"1", "0">>, <<"0", "0", "7">>, <<"5">>,
      <<"0", "0", "0", "0", "0", "0", "0", "0", "0", "1", "2">> }

TableRows ==
    { [number |-> n, x |-> 0, y |-> 0, z |-> Some(0), relative_height |-> Some(0),
       is_reference |-> FALSE] : n \in TableNumbers }

\* print_boreholes_table(boreholes_data): ret is the rows in the order printed
PrintTable ==
    /\ \E boreholes_data \in SeqsUpTo(TableRows, MaxRows) :
           /\ Fresh
           /\ call' = [op |-> "print_boreholes_table", arg |-> boreholes_data,
                       ret |-> SortedBoreholes(boreholes_data)]
    /\ hist_repeat' = FALSE
    /\ UNCHANGED <<boreholes, reference_borehole, detached, hist_selected, hist_heights>>
    /\ UNCHANGED program

\* ------------------------------ calculate_relative_heights after itself
\* lines 272-290 as a function of the registry bs, the index addr of the
\* reference in it and the override: the registry after the pass
HeightPass(bs, addr, reference_z) ==
    LET ref == [bs[addr] EXCEPT !.z = RefZ(bs[addr], reference_z)]
        heap1 == [bs EXCEPT ![addr] = ref]
    IN  [i \in 1..Len(bs) |-> HeightOf(heap1[i], ref)]

\* the overrides of the two passes
PassZs == {0, 50, 100}

\* on a fresh processor: extract_borehole_from_blocks, set_reference_borehole
\* with the number of borehole addr, calculate_relative_heights(r1) and then
\* calculate_relative_heights(r2); ret is the registry that
\* calculate_relative_heights(r2) alone leaves after the same extraction and
\* selection
TwoPasses ==
    /\ \E io \in BlocksTable :
       \E addr \in 1..Len(io[2]) :
       \E r1 \in PassZs :
       \E r2 \in PassZs :
           LET bs == [io[2] EXCEPT ![addr].relative_height = SelectedHeight]
           IN  /\ Fresh
               /\ FindByNumber(io[2], io[2][addr].number) = addr
               /\ boreholes' = HeightPass(HeightPass(bs, addr, r1), addr, r2)
               /\ reference_borehole' = Some(addr)
               /\ hist_selected' = {addr}
               /\ call' = [op |-> "calculate_relative_heights twice",
                           arg |-> <<r1, r2>>,
                           ret |-> HeightPass(bs, addr, r2)]
    /\ hist_heights' = TRUE
    /\ hist_repeat' = FALSE
    /\ UNCHANGED detached
    /\ UNCHANGED program

FnNext ==
    \/ ExtractNumber
    \/ PrintTable
    \/ TwoPasses
    \/ FromNumbers
    \/ FromBlocks
    \/ ClosestCircle
    \/ NearbyText

FnSpec == Init /\ [][FnNext]_vars

\* ===================================== the program: main, process_dwg_file
\* the call op has been made by process_dwg_file
Invoked(op) == \E k \in 1..Len(trace) : trace[k] = op

\* mutant: after a failure the run goes on to the report
ReturnFalseGoesOn ==
    /\ status' = [status EXCEPT !.success = Some(FALSE)]
    /\ pc' = "report"

\* return False inside the try block: the finally clause runs next
ReturnFalse ==
    /\ status' = [status EXCEPT !.success = Some(FALSE)]
    /\ pc' = "close_document"

\* main.py 183-194: the file check of main, then process_dwg_file is entered
\* with the command-line arguments and builds its three components
Main ==
    /\ pc = "main"
    /\ \E exists \in BOOLEAN :
       \E reference \in ReferenceArgs :
       \E reference_z \in ReferenceZs :
           /\ args' = [reference_borehole |-> reference, reference_z |-> reference_z]
           /\ IF exists
              THEN /\ pc' = "connect"
                   /\ UNCHANGED status
              ELSE /\ pc' = "exited"
                   /\ status' = [status EXCEPT !.exit = Some(1)]
    /\ UNCHANGED <<processor, handler, fetched, trace>>

\* AutoCADConnectionManager.__init__: the connectors, in the order of the list
connectors ==
    <<"DirectAutoCADConnector", "PyAutoCADConnector", "Win32COMConnector",
      "ComTypesConnector">>

\* mutant: the loop goes on after a success, the last connector that
\* connects becomes the active one
ConnectLoopTriesAll(i, answers, attempts, active) ==
    [attempts |-> connectors,
     active_connector |->
         IF \E k \in 1..Len(connectors) : answers[k]
         THEN Some(connectors[CHOOSE k \in 1..Len(connectors) :
                                  /\ answers[k]
                                  /\ \A q \in (k + 1)..Len(connectors) : ~answers[q]])
         ELSE active,
     ret |-> \E k \in 1..Len(connectors) : answers[k]]

\* the loop of AutoCADConnectionManager.connect from connector i on:
\* answers[k] is what connectors[k].connect() returns, attempts the
\* connectors tried so far, active the active connector before the call
RECURSIVE ConnectLoop(_, _, _, _)
ConnectLoop(i, answers, attempts, active) ==
    IF i > Len(connectors)
    THEN [attempts |-> attempts, active_connector |-> active, ret |-> FALSE]
    ELSE IF answers[i]
         THEN [attempts |-> Append(attempts, connectors[i]),
               active_connector |-> Some(connectors[i]), ret |-> TRUE]
         ELSE ConnectLoop(i + 1, answers, Append(attempts, connectors[i]), active)

\* main.py 57-66 with AutoCADHandler.connect and the loop of the connection
\* manager: each connector answers or does not
Connect ==
    /\ pc = "connect"
    /\ \E answers \in [1..Len(connectors) -> BOOLEAN] :
       \E active_document \in BOOLEAN :
           LET r == ConnectLoop(1, answers, <<>>,
                                handler.connection_manager.active_connector)
           IN  IF r.ret
               THEN /\ handler' = [connection_manager |->
                                       [active_connector |-> r.active_connector,
                                        is_connected |-> TRUE],
                                   acad |-> TRUE, doc |-> active_document,
                                   is_connected |-> TRUE]
                    /\ trace' = trace \o <<"connect">> \o r.attempts
                    /\ pc' = "open_dwg"
                    /\ UNCHANGED status
               ELSE /\ handler' = [handler EXCEPT !.is_connected = FALSE]
                    /\ trace' = trace \o <<"connect">> \o r.attempts
                                      \o <<"print_error_message">>
                    /\ ReturnFalse
    /\ UNCHANGED <<processor, args, fetched>>

\* main.py 70-73 with AutoCADHandler.open_dwg
OpenDwg ==
    /\ pc = "open_dwg"
    /\ \E opened \in BOOLEAN :
           IF handler.is_connected /\ opened
           THEN /\ handler' = [handler EXCEPT !.doc = TRUE]
                /\ trace' = trace \o <<"open_dwg">>
                /\ pc' = "find_borehole_blocks"
                /\ UNCHANGED status
           ELSE /\ trace' = trace \o <<"open_dwg", "print_error_message">>
                /\ ReturnFalse
                /\ UNCHANGED handler
    /\ UNCHANGED <<processor, args, fetched>>

\* mutant: the text and circle search runs whatever the block search found
ModeAlwaysTexts(borehole_blocks) == "find_text_entities"

\* main.py 79: if borehole_blocks: ... else: ...
ResolutionMode(borehole_blocks) ==
    IF borehole_blocks # <<>> THEN "extract_borehole_from_blocks"
    ELSE "find_text_entities"

\* main.py 76 with AutoCADHandler.find_borehole_blocks: the insertions of the
\* drawing, [] without a document
FindBoreholeBlocks ==
    /\ pc = "find_borehole_blocks"
    /\ \E borehole_blocks \in BlockInputs :
           /\ (handler.is_connected /\ handler.doc) \/ borehole_blocks = <<>>
           /\ fetched' = [fetched EXCEPT !.borehole_blocks = Some(borehole_blocks)]
           /\ pc' = ResolutionMode(borehole_blocks)
    /\ trace' = Append(trace, "find_borehole_blocks")
    /\ UNCHANGED <<processor, args, handler, status>>

\* mutant: an empty list of boreholes is passed on to the selection
EmptyResultIgnored(bs) == FALSE

\* main.py 93: if not boreholes
EmptyResult(bs) == bs = <<>>

\* main.py 93-95 after either extraction: the warning and return False, or on
\* to the selection; op is the extraction that has run
AfterExtraction(op) ==
    IF EmptyResult(boreholes')
    THEN /\ trace' = trace \o <<op, "print_warning_message">>
         /\ ReturnFalse
    ELSE /\ trace' = Append(trace, op)
         /\ pc' = "set_reference_borehole"
         /\ UNCHANGED status

\* main.py 80, 93-95
BlocksMode ==
    /\ pc = "extract_borehole_from_blocks"
    /\ \E io \in BlocksTable :
           /\ io[1] = Get(fetched.borehole_blocks)
           /\ extract_borehole_from_blocks(io[1], io[2])
    /\ AfterExtraction("extract_borehole_from_blocks")
    /\ UNCHANGED <<args, handler, fetched>>

\* main.py 84 with AutoCADHandler.find_text_entities
FindTextEntities ==
    /\ pc = "find_text_entities"
    /\ \E text_entities \in SeqsUpTo(TextSamples, MaxTexts) :
           /\ (handler.is_connected /\ handler.doc) \/ text_entities = <<>>
           /\ fetched' = [fetched EXCEPT !.text_entities = Some(text_entities)]
    /\ trace' = Append(trace, "find_text_entities")
    /\ pc' = "find_circles"
    /\ UNCHANGED <<processor, args, handler, status>>

\* main.py 85-89 with AutoCADHandler.find_circles: nothing at all in the
\* drawing is a warning and return False
FindCircles ==
    /\ pc = "find_circles"
    /\ \E circles \in SeqsUpTo(CircleSamples, MaxCircles) :
           /\ (handler.is_connected /\ handler.doc) \/ circles = <<>>
           /\ fetched' = [fetched EXCEPT !.circles = Some(circles)]
           /\ IF Get(fetched.text_entities) = <<>> /\ circles = <<>>
              THEN /\ trace' = trace \o <<"find_circles", "print_warning_message">>
                   /\ ReturnFalse
              ELSE /\ trace' = Append(trace, "find_circles")
                   /\ pc' = "extract_borehole_numbers"
                   /\ UNCHANGED status
    /\ UNCHANGED <<processor, args, handler>>

\* main.py 91, 93-95
NumbersMode ==
    /\ pc = "extract_borehole_numbers"
    /\ \E io \in NumbersTable :
           /\ io[1] = Get(fetched.text_entities)
           /\ io[2] = Get(fetched.circles)
           /\ extract_borehole_numbers(io[1], io[2], io[3])
    /\ AfterExtraction("extract_borehole_numbers")
    /\ UNCHANGED <<args, handler, fetched>>

\* main.py 98-100
SelectReference ==
    /\ pc = "set_reference_borehole"
    /\ set_reference_borehole(args.reference_borehole)
    /\ IF call'.ret
       THEN /\ trace' = Append(trace, "set_reference_borehole")
            /\ pc' = "calculate_relative_heights"
            /\ UNCHANGED status
       ELSE /\ trace' = trace \o <<"set_reference_borehole", "print_error_message">>
            /\ ReturnFalse
    /\ UNCHANGED <<args, handler, fetched>>

\* main.py 103-105
Heights ==
    /\ pc = "calculate_relative_heights"
    /\ calculate_relative_heights(args.reference_z)
    /\ IF call'.ret
       THEN /\ trace' = Append(trace, "calculate_relative_heights")
            /\ pc' = "report"
            /\ UNCHANGED status
       ELSE /\ trace' = trace \o <<"calculate_relative_heights", "print_error_message">>
            /\ ReturnFalse
    /\ UNCHANGED <<args, handler, fetched>>

\* main.py 108-132: the data is read and printed, return True
Report ==
    /\ pc = "report"
    /\ trace' = trace \o <<"get_boreholes_data", "print_boreholes_table">>
    /\ status' = [status EXCEPT !.success = Some(TRUE)]
    /\ pc' = "close_document"
    /\ UNCHANGED <<processor, args, handler, fetched>>

\* main.py 140 with AutoCADHandler.close_document (finally clause)
CloseDocument ==
    /\ pc = "close_document"
    /\ handler' = [handler EXCEPT !.doc = FALSE]
    /\ trace' = Append(trace, "close_document")
    /\ pc' = "disconnect"
    /\ UNCHANGED <<processor, args, fetched, status>>

\* mutant: disconnect fails and leaves the handler as it is
DisconnectFailed(h) == h

\* AutoCADHandler.disconnect with AutoCADConnectionManager.disconnect
Disconnected(h) ==
    [connection_manager |-> [active_connector |-> None, is_connected |-> FALSE],
     acad |-> FALSE, doc |-> FALSE, is_connected |-> FALSE]

\* main.py 141 with AutoCADHandler.disconnect; process_dwg_file returns
Disconnect ==
    /\ pc = "disconnect"
    /\ handler' = Disconnected(handler)
    /\ trace' = Append(trace, "disconnect")
    /\ pc' = "exit"
    /\ UNCHANGED <<processor, args, fetched, status>>

\* mutant: the program always exits with 0
ExitStatusZero(success) == 0

\* main.py 197-202: sys.exit(0) if success else sys.exit(1)
ExitStatus(success) == IF success THEN 0 ELSE 1

Exit ==
    /\ pc = "exit"
    /\ status' = [status EXCEPT !.exit = Some(ExitStatus(Get(status.success)))]
    /\ pc' = "exited"
    /\ UNCHANGED <<processor, args, handler, fetched, trace>>

ProgramNext ==
    \/ Main
    \/ Connect
    \/ OpenDwg
    \/ FindBoreholeBlocks
    \/ BlocksMode
    \/ FindTextEntities
    \/ FindCircles
    \/ NumbersMode
    \/ SelectReference
    \/ Heights
    \/ Report
    \/ CloseDocument
    \/ Disconnect
    \/ Exit

ProgramSpec == Init /\ [][ProgramNext]_vars

\* ------------------------------------------------ runs with an exception
\* the positions of process_dwg_file inside its try block
TrySteps ==
    {"connect", "open_dwg", "find_borehole_blocks", "extract_borehole_from_blocks",
     "find_text_entities", "find_circles", "extract_borehole_numbers",
     "set_reference_borehole", "calculate_relative_heights", "report"}

\* main.py 134-136: a call of the try block raises (a print of ConsoleOutput
\* on a console that cannot encode it, for one) before the step at pc has
\* had an effect; the except clause returns False and the finally clause
\* runs next
Raise ==
    /\ pc \in TrySteps
    /\ trace' = Append(trace, "except")
    /\ ReturnFalse
    /\ UNCHANGED <<processor, args, handler, fetched>>

FaultNext ==
    \/ ProgramNext
    \/ Raise

\* every run is carried on to its end: nothing in process_dwg_file waits
FaultSpec == Init /\ [][FaultNext]_vars /\ WF_vars(FaultNext)

\* =============================================================== claims
\* positions of the list
Idx == 1..Len(boreholes)

\* positions get_boreholes_data reports with is_reference = true
Flagged == { i \in Idx : get_boreholes_data[i].is_reference }

\* reference_borehole points into the current list
RefInList == reference_borehole # None /\ Get(reference_borehole) # 0

SetOk == call.op = "set_reference_borehole" /\ call.ret = TRUE

CalcOk == call.op = "calculate_relative_heights" /\ call.ret = TRUE

\* C1: after an extraction no two boreholes of the registry have the same
\* identifier (number).
C1_UniqueIdentifiers ==
    \A i, j \in Idx : i # j => boreholes[i].number # boreholes[j].number

\* C2: once set_reference_borehole has succeeded on the current registry,
\* through any further set_reference_borehole and calculate_relative_heights
\* calls, get_boreholes_data reports is_reference for at most one record.
C2_AtMostOneReference == RefInList => Cardinality(Flagged) <= 1

\* C3: immediately after set_reference_borehole(id) succeeds with a given
\* identifier id, exactly one borehole is flagged is_reference, its number
\* is id and its relative_height is 0.
C3_ExactlyOneAfterSelect ==
    (SetOk /\ Truthy(call.arg)) =>
        /\ Cardinality(Flagged) = 1
        /\ \A i \in Flagged :
              /\ boreholes[i].number = Get(call.arg)
              /\ boreholes[i].relative_height = Some(0)

\* C4: set_reference_borehole fails (returns False) whenever the registry is
\* empty and whenever an identifier is given (any string, not the omitted
\* None) that no borehole has; on the failure the reference and every
\* borehole are unchanged and no borehole is selected as a default.
C4_NotFoundFails ==
    [][ ( /\ call'.op = "set_reference_borehole"
          /\ \/ boreholes = <<>>
             \/ /\ call'.arg # None
                /\ FindByNumber(boreholes, Get(call'.arg)) = 0 )
        => ( /\ call'.ret = FALSE
             /\ boreholes' = boreholes
             /\ reference_borehole' = reference_borehole
             /\ detached' = detached ) ]_vars

\* C5: set_reference_borehole without an identifier is deterministic: it
\* selects the first registered borehole.
C5_DefaultSelectsFirst ==
    (SetOk /\ call.arg = None) => reference_borehole = Some(1)

\* C6: when set_reference_borehole succeeded for borehole A and a later call
\* succeeds for a different borehole B, then B is flagged is_reference and A
\* is no longer flagged.
C6_ReselectClearsFlag ==
    [][ ( /\ RefInList
          /\ call'.op = "set_reference_borehole"
          /\ call'.ret = TRUE
          /\ reference_borehole' # reference_borehole )
        => LET a == Get(reference_borehole)
               b == Get(reference_borehole')
           IN  /\ b \in Flagged'
               /\ a \notin Flagged' ]_vars

\* C7 (as stated): relative_height is defined iff a reference has been
\* selected and calculate_relative_heights has executed since; in particular
\* right after a successful selection, before the height pass, no borehole
\* has a defined relative_height.
C7_UndefinedBeforeHeightPass ==
    SetOk => \A i \in Idx : boreholes[i].relative_height = None

\* C7 (amended): a borehole's relative_height is defined iff that borehole
\* has been selected by a successful set_reference_borehole, or a
\* calculate_relative_heights has succeeded, since the registry was built.
C7_DefinedIffSelectedOrComputed ==
    \A i \in Idx :
        (boreholes[i].relative_height # None) <=> (i \in hist_selected \/ hist_heights)

\* C7 witness: after a selection and before any height pass the selected
\* borehole has relative_height 0 while another borehole has none.
C7_Witness ==
    /\ SetOk
    /\ ~hist_heights
    /\ \E i, j \in Idx :
          /\ boreholes[i].relative_height = Some(0)
          /\ boreholes[j].relative_height = None

\* C8: calculate_relative_heights with no reference selected returns False
\* and changes no borehole (no z, no relative_height).
C8_NoReferenceFails ==
    [][ (call'.op = "calculate_relative_heights" /\ reference_borehole = None)
        => ( /\ call'.ret = FALSE
             /\ boreholes' = boreholes
             /\ reference_borehole' = reference_borehole
             /\ detached' = detached ) ]_vars

\* C8 witness: the height pass was refused on a registry that has boreholes.
C8_Witness ==
    /\ call.op = "calculate_relative_heights"
    /\ call.ret = FALSE
    /\ reference_borehole = None
    /\ boreholes # <<>>

\* C9: calculate_relative_heights(override) sets the reference's z to the
\* override exactly when that z is absent or 0; a non-zero z is kept.
C9_OverrideRule ==
    [][ (call'.op = "calculate_relative_heights" /\ call'.ret = TRUE)
        => LET before == RefObj
               after == RefObj'
           IN  IF before.z = None \/ before.z = Some(0)
               THEN after.z = Some(call'.arg)
               ELSE after.z = before.z ]_vars

\* C9 witness: both cases have happened on one registry: the reference kept
\* a non-zero drawing elevation that differs from the override, and in
\* another pass a zero elevation was replaced by a non-zero override.
C9_Witness ==
    /\ CalcOk
    /\ RefInList
    /\ RefObj.z # Some(0)
    /\ RefObj.z # Some(call.arg)
    /\ \E i \in Idx : boreholes[i].z = Some(100)

\* C10: after a successful calculate_relative_heights every borehole other
\* than the selected reference has a z and relative_height = z - reference z.
C10_RelativeHeights ==
    CalcOk =>
        \A i \in Idx :
            reference_borehole # Some(i) =>
                /\ boreholes[i].z # None
                /\ boreholes[i].relative_height
                       = Some(Get(boreholes[i].z) - Get(RefObj.z))

\* C10 witness: the reference had z 0 and took the override 100; a borehole
\* with z 5 got relative_height -95.
C10_Witness ==
    /\ CalcOk
    /\ call.arg = 100
    /\ RefInList
    /\ RefObj.z = Some(100)
    /\ \E i \in Idx :
          /\ boreholes[i].z = Some(5)
          /\ boreholes[i].relative_height = Some(-95)

\* C11: calculate_relative_heights is idempotent: a second successful call in
\* a row, with the same reference and the same override, leaves every
\* borehole's z and relative_height (the reference's included) as the first
\* call left them
C11_Idempotent ==
    [][ ( /\ call.op = "calculate_relative_heights" /\ call.ret
          /\ call'.op = "calculate_relative_heights" /\ call'.ret
          /\ call'.arg = call.arg
          /\ reference_borehole' = reference_borehole )
        => /\ Len(boreholes') = Len(boreholes)
           /\ \A i \in Idx : /\ boreholes'[i].z = boreholes[i].z
                             /\ boreholes'[i].relative_height = boreholes[i].relative_height
           /\ detached' = detached ]_vars

\* the pass has just been repeated on a list with a borehole above or below
\* the reference
C11_Witness ==
    /\ hist_repeat
    /\ CalcOk
    /\ \E i \in Idx : /\ ~IsReference(boreholes[i])
                      /\ boreholes[i].relative_height \notin {None, Some(0)}

\* C12: _extract_borehole_number returns the digit string of every supported
\* label format ("skv. N", "skvazhina N", "No N", "N skv", "skv N", bare "N")
\* in any letter case, and returns None for a text none of the rules matches
C12_SupportedFormats ==
    call.op = "_extract_borehole_number" =>
        /\ \A p \in SupportedLabels : call.arg = p[1] => call.ret = Some(p[2])
        /\ call.arg \in UnsupportedLabels => call.ret = None

\* the long word of rule 1, in mixed case, has been parsed
C12_Witness ==
    /\ call.op = "_extract_borehole_number"
    /\ call.arg = <<"S", "k", "V", "a", "ZH", "i", "n", "A", " ", "1", "2">>
    /\ call.ret = Some(<<"1", "2">>)

\* C13: _find_closest_circle and _find_nearby_text return, among the
\* candidates whose distance in the XY plane (Z ignored) from the query point
\* is at most max_distance, the one at the least distance, the first in input
\* order when several are equally near, and None when the list is empty or
\* every candidate is farther
C13_NearestWithinThreshold ==
    call.op \in {"_find_closest_circle", "_find_nearby_text"} =>
        LET p == call.arg[1]
            cands == call.arg[2]
            where == IF call.op = "_find_closest_circle" THEN "center" ELSE "position"
            d2(i) == (p[1] - cands[i][where][1]) * (p[1] - cands[i][where][1])
                     + (p[2] - cands[i][where][2]) * (p[2] - cands[i][where][2])
            Near == { i \in 1..Len(cands) : d2(i) <= 50 * 50 }
        IN  IF Near = {}
            THEN call.ret = None
            ELSE LET best == CHOOSE i \in Near :
                                 \A j \in Near : d2(i) < d2(j) \/ (d2(i) = d2(j) /\ i <= j)
                 IN  call.ret = Some(cands[best])

\* two circles at distance 50 exactly and at different heights, a nearer one
\* absent: the first of the two came back
C13_Witness ==
    /\ call.op = "_find_closest_circle"
    /\ call.arg = << <<0, 0>>, << [center |-> <<30, 41, 0>>, radius |-> 1],
                                 [center |-> <<40, 30, 7>>, radius |-> 1],
                                 [center |-> <<30, 40, 0>>, radius |-> 1] >> >>
    /\ call.ret = Some([center |-> <<40, 30, 7>>, radius |-> 1])

\* C14: in the result of extract_borehole_numbers the pairing is 1:1: no
\* circle is the circle_entity of two boreholes and no text label is the
\* text_entity of two boreholes
C14_OneToOnePairing ==
    call.op = "extract_borehole_numbers" =>
        \A i, j \in Idx :
            i # j =>
                /\ boreholes[i].text_entity = None
                   \/ boreholes[i].text_entity # boreholes[j].text_entity
                /\ boreholes[i].circle_entity = None
                   \/ boreholes[i].circle_entity # boreholes[j].circle_entity

\* C15: extract_borehole_from_blocks, given N insertions that each carry one
\* numeric attribute value, the values distinct, produces exactly N boreholes,
\* one per insertion in input order, with the attribute values as identifiers
\* and the insertions' positions as positions (z = 0 for a 2D position)
C15_BlocksRoundTrip ==
    ( /\ call.op = "extract_borehole_from_blocks"
      /\ \A i \in 1..Len(call.arg) :
             /\ Len(call.arg[i].attributes) = 1
             /\ call.arg[i].attributes[1] # <<>>
             /\ \A k \in 1..Len(call.arg[i].attributes[1]) :
                    IsDigit(call.arg[i].attributes[1][k])
      /\ \A i, j \in 1..Len(call.arg) :
             i # j => call.arg[i].attributes[1] # call.arg[j].attributes[1] )
    => /\ Len(boreholes) = Len(call.arg)
       /\ \A i \in 1..Len(call.arg) :
              LET position == call.arg[i].position
              IN  /\ boreholes[i].number = call.arg[i].attributes[1]
                  /\ boreholes[i].x = position[1]
                  /\ boreholes[i].y = position[2]
                  /\ boreholes[i].z = Some(IF Len(position) = 3 THEN position[3] ELSE 0)

\* three insertions numbered 12, 3, 1 in this order, the first one 2D
C15_Witness ==
    /\ call.op = "extract_borehole_from_blocks"
    /\ call.arg = << [position |-> <<7, 7>>, attributes |-> <<Str12>>],
                     [position |-> <<0, 0, 0>>, attributes |-> <<Str3>>],
                     [position |-> <<10, 0, 5>>, attributes |-> <<Str1>>] >>
    /\ Len(boreholes) = 3
    /\ boreholes[1].number = Str12 /\ boreholes[1].z = Some(0)
    /\ boreholes[3].number = Str1 /\ boreholes[3].z = Some(5)

\* C16: in extract_borehole_from_blocks the identifier of an insertion is the
\* number parsed from the first attribute value, in iteration order, that
\* yields a match; an insertion none of whose attribute values yields a match
\* gets its 1-based position in the list as identifier
C16_FirstMatchOrPosition ==
    call.op = "extract_borehole_from_blocks" =>
        /\ Len(boreholes) = Len(call.arg)
        /\ \A i \in 1..Len(call.arg) :
               LET values == call.arg[i].attributes
                   matching == { k \in 1..Len(values) :
                                    ExtractBoreholeNumber(values[k]) # None }
               IN  IF matching = {}
                   THEN boreholes[i].number = IntToStr(i)
                   ELSE \E k \in matching :
                            /\ \A q \in matching : k <= q
                            /\ boreholes[i].number = Get(ExtractBoreholeNumber(values[k]))

\* an insertion with two matching attribute values took the first, and an
\* insertion without a matching value, third in the list, is number 3
C16_Witness ==
    /\ call.op = "extract_borehole_from_blocks"
    /\ Len(call.arg) = 3
    /\ call.arg[1].attributes = <<StrEmpty, StrX, StrSkv2, Str7>>
    /\ boreholes[1].number = <<"2">>
    /\ call.arg[3].attributes = <<StrPad7>>
    /\ boreholes[3].number = <<"3">>

\* C17: in extract_borehole_numbers a label whose (stripped) text carries a
\* number gives one borehole with this number that refers to the label (one
\* for each label of the list with the same content): when the nearest
\* circle is within 50.0 the borehole is at that circle's center (x, y, and z
\* when the center has one) and refers to the circle too, when no circle is
\* within 50.0 it is at the label's position and refers to no circle; one
\* such label with one such circle gives a list of exactly one borehole
C17_LabelAndCircle ==
    call.op = "extract_borehole_numbers" =>
        LET text_entities == call.arg[1]
            circles == call.arg[2]
            Number(t) == ExtractBoreholeNumber(Strip(text_entities[t].text))
            d2(t, c) == (text_entities[t].position[1] - circles[c].center[1])
                          * (text_entities[t].position[1] - circles[c].center[1])
                        + (text_entities[t].position[2] - circles[c].center[2])
                          * (text_entities[t].position[2] - circles[c].center[2])
            Near(t) == { c \in 1..Len(circles) : d2(t, c) <= 50 * 50 }
            Nearest(t) == CHOOSE c \in Near(t) :
                              \A e \in Near(t) : d2(t, c) < d2(t, e)
                                                  \/ (d2(t, c) = d2(t, e) /\ c <= e)
            Same(t) == { u \in 1..Len(text_entities) : text_entities[u] = text_entities[t] }
            AtCircle(t) ==
                LET center == circles[Nearest(t)].center
                IN  { i \in Idx :
                        /\ boreholes[i].number = Get(Number(t))
                        /\ boreholes[i].text_entity = Some(text_entities[t])
                        /\ boreholes[i].circle_entity = Some(circles[Nearest(t)])
                        /\ boreholes[i].x = center[1]
                        /\ boreholes[i].y = center[2]
                        /\ Len(center) = 3 => boreholes[i].z = Some(center[3]) }
            AtLabel(t) ==
                LET position == text_entities[t].position
                IN  { i \in Idx :
                        /\ boreholes[i].number = Get(Number(t))
                        /\ boreholes[i].text_entity = Some(text_entities[t])
                        /\ boreholes[i].circle_entity = None
                        /\ boreholes[i].x = position[1]
                        /\ boreholes[i].y = position[2]
                        /\ boreholes[i].z =
                               Some(IF Len(position) = 3 THEN position[3] ELSE 0) }
        IN  /\ \A t \in 1..Len(text_entities) :
                   Number(t) # None =>
                       IF Near(t) # {}
                       THEN Cardinality(AtCircle(t)) = Cardinality(Same(t))
                       ELSE Cardinality(AtLabel(t)) = Cardinality(Same(t))
            /\ ( /\ Len(text_entities) = 1 /\ Len(circles) = 1
                 /\ Number(1) # None /\ Near(1) # {} )
               => Len(boreholes) = 1

\* the label "Skv. 5" at (3, 4, 0) and the circle at (4, 4, 0): one borehole
\* "5" at the circle's center
C17_Witness ==
    /\ call.op = "extract_borehole_numbers"
    /\ call.arg = << <<[text |-> StrSkv5, position |-> <<3, 4, 0>>]>>,
                     <<[center |-> <<4, 4, 0>>, radius |-> 1]>> >>
    /\ Len(boreholes) = 1
    /\ boreholes[1].number = <<"5">>
    /\ boreholes[1].x = 4 /\ boreholes[1].y = 4 /\ boreholes[1].z = Some(0)

\* C18: process_dwg_file uses one resolution mode per run: when
\* find_borehole_blocks returned at least one insertion only
\* extract_borehole_from_blocks runs and texts and circles are never fetched;
\* the text/circle matching runs only when no insertion was found
C18_OneModePerRun ==
    /\ ~(Invoked("extract_borehole_from_blocks") /\ Invoked("extract_borehole_numbers"))
    /\ (fetched.borehole_blocks # None /\ Get(fetched.borehole_blocks) # <<>>) =>
           /\ fetched.text_entities = None
           /\ fetched.circles = None
           /\ ~Invoked("find_text_entities")
           /\ ~Invoked("find_circles")
           /\ ~Invoked("extract_borehole_numbers")
           /\ pc # "extract_borehole_from_blocks" => Invoked("extract_borehole_from_blocks")
    /\ ( \/ Invoked("find_text_entities")
         \/ Invoked("find_circles")
         \/ Invoked("extract_borehole_numbers") ) =>
           fetched.borehole_blocks = Some(<<>>)

\* a run on a drawing with two insertions has ended with status 0
C18_Witness ==
    /\ pc = "exited"
    /\ fetched.borehole_blocks # None
    /\ Len(Get(fetched.borehole_blocks)) = 2
    /\ Invoked("extract_borehole_from_blocks")
    /\ status.exit = Some(0)

\* C19: when the drawing yields no insertions, no texts and no circles, or
\* the extraction resolves no borehole, process_dwg_file prints a warning (not
\* an error), returns False, and calls neither set_reference_borehole nor
\* calculate_relative_heights
C19_EmptyResultIsWarning ==
    LET nothing == /\ fetched.borehole_blocks = Some(<<>>)
                   /\ fetched.text_entities = Some(<<>>)
                   /\ fetched.circles = Some(<<>>)
        zero == /\ Invoked("extract_borehole_from_blocks")
                   \/ Invoked("extract_borehole_numbers")
                /\ boreholes = <<>>
    IN  (nothing \/ zero) =>
            /\ Invoked("print_warning_message")
            /\ ~Invoked("print_error_message")
            /\ status.success = Some(FALSE)
            /\ ~Invoked("set_reference_borehole")
            /\ ~Invoked("calculate_relative_heights")
            /\ pc \in {"close_document", "disconnect", "exit", "exited"}

\* a drawing with a label that carries no number: the matching ran, resolved
\* nothing, and the run has ended
C19_Witness ==
    /\ pc = "exited"
    /\ fetched.text_entities # None
    /\ Get(fetched.text_entities) # <<>>
    /\ Invoked("extract_borehole_numbers")
    /\ boreholes = <<>>
    /\ Invoked("print_warning_message")

\* C20 as stated: the program exits with status 0 whenever at least one
\* borehole was resolved from the drawing, and with a non-zero status
\* otherwise
C20_ExitZeroIffResolved ==
    pc = "exited" => (status.exit = Some(0) <=> boreholes # <<>>)

\* C20 amended: the program exits with status 0 exactly when at least one
\* borehole was resolved and the reference could be selected, that is no
\* identifier (or an empty one) was requested or the requested identifier is
\* the number of a resolved borehole; it exits with a non-zero status otherwise
C20_ExitZeroIffProcessed ==
    pc = "exited" =>
        ( status.exit = Some(0)
          <=> /\ boreholes # <<>>
              /\ \/ args.reference_borehole \in {None, Some(<<>>)}
                 \/ \E i \in Idx : boreholes[i].number = Get(args.reference_borehole) )

\* boreholes were resolved, the requested reference "9" is not among them,
\* and the program has exited with a non-zero status
C20_Witness ==
    /\ pc = "exited"
    /\ boreholes # <<>>
    /\ args.reference_borehole = Some(<<"9">>)
    /\ Invoked("set_reference_borehole")
    /\ status.exit = Some(1)

\* C21: the list get_boreholes_data returns is ordered by ascending numeric
\* value of the identifier, whatever the order of registration was
C21_DataSortedByNumber ==
    \A i, j \in 1..Len(get_boreholes_data) :
        i < j => StrToInt(get_boreholes_data[i].number)
                     <= StrToInt(get_boreholes_data[j].number)

\* C22: print_boreholes_table prints the rows in numeric order of the
\* identifiers: of two digit-string identifiers of any lengths the one with
\* the smaller number is printed first
C22_TableNumericOrder ==
    call.op = "print_boreholes_table" =>
        \A i, j \in 1..Len(call.ret) :
            StrToInt(call.ret[i].number) < StrToInt(call.ret[j].number) => i < j

\* C23: _extract_borehole_number tries the five rules in list order on the
\* lower-cased text and returns the capture of the first rule that matches
\* anywhere in it, also when a later rule matches earlier in the text or
\* captures another number
C23_RulePriority ==
    call.op = "_extract_borehole_number" =>
        /\ LET text_lower == Lower(call.arg)
               matching == { r \in 1..5 : borehole_patterns(r, text_lower) # None }
           IN  IF matching = {}
               THEN call.ret = None
               ELSE \E r \in matching :
                        /\ \A q \in matching : r <= q
                        /\ call.ret = borehole_patterns(r, text_lower)
        /\ \A p \in PriorityLabels : call.arg = p[1] => call.ret = Some(p[2])

\* "N 7 skv. 5": the numero rule matches first in the text with 7, the skv
\* rule comes first in the list and its 5 was returned
C23_Witness ==
    /\ call.op = "_extract_borehole_number"
    /\ call.arg = <<"N", " ", "7", " ", "s", "k", "v", ".", " ", "5">>
    /\ borehole_patterns(2, Lower(call.arg)) = Some(<<"7">>)
    /\ call.ret = Some(<<"5">>)

\* C24: the bare-number rule applies to the trimmed string: an input that is
\* a digit string d with whitespace before or after it gives the identifier
\* d, as the only attribute value of an insertion, as the text of a label,
\* and as the text of the label found near a circle
C24_TrimmedBareNumber ==
    LET Padded(s) == /\ Strip(s) # <<>>
                     /\ \A k \in 1..Len(Strip(s)) : IsDigit(Strip(s)[k])
    IN  /\ call.op = "_extract_borehole_number" =>
               (Padded(call.arg) => call.ret = Some(Strip(call.arg)))
        /\ call.op = "extract_borehole_from_blocks" =>
               \A i \in 1..Len(call.arg) :
                   ( /\ Len(call.arg[i].attributes) = 1
                     /\ Padded(call.arg[i].attributes[1]) )
                   => boreholes[i].number = Strip(call.arg[i].attributes[1])
        /\ call.op = "extract_borehole_numbers" =>
               /\ \A t \in 1..Len(call.arg[1]) :
                      Padded(call.arg[1][t].text) =>
                          \E i \in Idx :
                              /\ boreholes[i].text_entity = Some(call.arg[1][t])
                              /\ boreholes[i].number = Strip(call.arg[1][t].text)
               /\ \A c \in 1..Len(call.arg[2]) :
                      LET nearby_text ==
                              FindNearbyText(call.arg[2][c].center, call.arg[1])
                      IN  ( /\ nearby_text # None
                            /\ Padded(Get(nearby_text).text) )
                          => \E i \in Idx :
                                 /\ boreholes[i].circle_entity = Some(call.arg[2][c])
                                 /\ boreholes[i].number = Strip(Get(nearby_text).text)

\* C25: in extract_borehole_numbers a label without a parseable identifier
\* and a circle with no label within the threshold give no borehole, every
\* borehole carries the identifier parsed from its own source label, and
\* every label with a parseable identifier gives a borehole, a circle near
\* it or not
C25_BoreholesFromLabels ==
    call.op = "extract_borehole_numbers" =>
        LET text_entities == call.arg[1]
            circles == call.arg[2]
            Number(t) == ExtractBoreholeNumber(Strip(text_entities[t].text))
            Reach(c) == { t \in 1..Len(text_entities) :
                            Dist2(circles[c].center, text_entities[t].position)
                                <= MaxDistance * MaxDistance }
        IN  /\ \A t \in 1..Len(text_entities) :
                   Number(t) = None =>
                       \A i \in Idx : boreholes[i].text_entity # Some(text_entities[t])
            /\ \A c \in 1..Len(circles) :
                   Reach(c) = {} =>
                       \A i \in Idx : boreholes[i].circle_entity # Some(circles[c])
            /\ \A i \in Idx :
                   \E t \in 1..Len(text_entities) :
                       /\ boreholes[i].text_entity = Some(text_entities[t])
                       /\ Number(t) # None
                       /\ boreholes[i].number = Get(Number(t))
            /\ \A t \in 1..Len(text_entities) :
                   Number(t) # None =>
                       \E i \in Idx :
                           /\ boreholes[i].text_entity = Some(text_entities[t])
                           /\ boreholes[i].number = Get(Number(t))

\* the label "x" beside the circle at (4, 4, 0), the label "12" far from
\* every circle, the circle at (120, 0, 1) far from every label: the only
\* borehole is "12", at its label
C25_Witness ==
    /\ call.op = "extract_borehole_numbers"
    /\ call.arg = << <<[text |-> StrX, position |-> <<3, 5>>],
                       [text |-> Str12, position |-> <<200, 200>>]>>,
                     <<[center |-> <<4, 4, 0>>, radius |-> 1],
                       [center |-> <<120, 0, 1>>, radius |-> 1]>> >>
    /\ Len(boreholes) = 1
    /\ boreholes[1].number = Str12
    /\ boreholes[1].circle_entity = None
    /\ boreholes[1].x = 200

\* the step of process_dwg_file a call of the trace belongs to: 1 connect,
\* 2 open document, 3 extract, 4 select reference, 5 compute heights,
\* 6 report; 0 for a call that is no step
StepRank(op) ==
    IF op = "connect" THEN 1
    ELSE IF op = "open_dwg" THEN 2
    ELSE IF op \in {"find_borehole_blocks", "extract_borehole_from_blocks",
                    "find_text_entities", "find_circles",
                    "extract_borehole_numbers"} THEN 3
    ELSE IF op = "set_reference_borehole" THEN 4
    ELSE IF op = "calculate_relative_heights" THEN 5
    ELSE IF op \in {"get_boreholes_data", "print_boreholes_table"} THEN 6
    ELSE 0

\* what the trace shows of a failed step: the error or warning printed before
\* return False, the except clause
Failures == {"print_error_message", "print_warning_message", "except"}

Released ==
    /\ Len(trace) >= 2
    /\ SubSeq(trace, Len(trace) - 1, Len(trace)) = <<"close_document", "disconnect">>
    /\ ~handler.is_connected
    /\ ~handler.doc
    /\ ~handler.acad
    /\ handler.connection_manager.active_connector = None

\* C29: every run of process_dwg_file, whatever step fails or raises,
\* eventually calls close_document and then disconnect before it returns,
\* and when it has returned the handler is not connected and holds no
\* document and no application object
C29_AlwaysReleased ==
    /\ [](pc = "exit" => Released)
    /\ (pc = "connect") ~> (pc = "exit" /\ Released)

\* a run that had connected and opened the document raised afterwards, and
\* has returned with the handler released
C29_Witness ==
    /\ pc = "exit"
    /\ Invoked("open_dwg")
    /\ ~Invoked("print_error_message")
    /\ Invoked("except")
    /\ Released
    /\ status.success = Some(FALSE)

\* the connectors AutoCADConnectionManager.connect has tried, in the order
\* of the attempts
Attempts ==
    LET IsConnector(op) == \E k \in 1..Len(connectors) : connectors[k] = op
    IN  SelectSeq(trace, IsConnector)

\* C30: AutoCADConnectionManager.connect tries the connectors in the fixed
\* order Direct, PyAutoCAD, Win32COM, ComTypes; the first that connects
\* becomes the active one and none is tried after it; failure is reported
\* only after all four were tried and the handler is connected only with a
\* connector that succeeded; whenever the manager is_connected an active
\* connector is set
C30_FirstConnectorWins ==
    LET manager == handler.connection_manager
    IN  /\ Len(Attempts) <= Len(connectors)
        /\ \A k \in 1..Len(Attempts) : Attempts[k] = connectors[k]
        /\ manager.active_connector # None =>
               /\ Attempts # <<>>
               /\ Attempts[Len(Attempts)] = Get(manager.active_connector)
        /\ manager.is_connected => manager.active_connector # None
        /\ handler.is_connected => manager.is_connected
        /\ (Invoked("connect") /\ manager.active_connector = None
              /\ ~Invoked("disconnect")) =>
               /\ Attempts = connectors
               /\ ~handler.is_connected
               /\ ~Invoked("open_dwg")

\* the first two connectors failed, Win32COM connected and is the active
\* one, ComTypes was not tried
C30_Witness ==
    /\ pc = "open_dwg"
    /\ Attempts = <<"DirectAutoCADConnector", "PyAutoCADConnector", "Win32COMConnector">>
    /\ handler.connection_manager.active_connector = Some("Win32COMConnector")
    /\ handler.connection_manager.is_connected
    /\ handler.is_connected

\* C27: the result of calculate_relative_heights does not depend on earlier
\* height passes: calculate_relative_heights(r1) followed by
\* calculate_relative_heights(r2) leaves every borehole with the elevation
\* and the relative height that calculate_relative_heights(r2) alone leaves
C27_LastPassDecides ==
    call.op = "calculate_relative_heights twice" =>
        \A i \in 1..Len(boreholes) :
            /\ boreholes[i].z = call.ret[i].z
            /\ boreholes[i].relative_height = call.ret[i].relative_height

\* C28: in every reachable state the selected reference, when set, is one of
\* the boreholes of the current registry, and a height pass succeeds only
\* against such a reference: an extraction leaves no reference of the
\* registry before it
C28_ReferenceInRegistry ==
    /\ reference_borehole # None => Get(reference_borehole) \in Idx
    /\ CalcOk => (reference_borehole # None /\ Get(reference_borehole) \in Idx)

====
